---- MODULE Spec2Model ----
(***************************************************************************)
(* A model of src/libs/stb/stb_image.h: the placeholder stbi_load, which   *)
(* ignores its file and fills a malloc'ed 64x64 RGB buffer with an 8x8     *)
(* checkerboard, and stbi_image_free, which hands its argument to free.    *)
(*                                                                         *)
(* Each element of Threads is one caller context: its own out-parameters   *)
(* x, y, comp and the pointer it got back.  The heap is a small set of     *)
(* addresses; a successful malloc creates a new buffer (numbered in        *)
(* allocation order) at an address no live buffer occupies.  A block is    *)
(* kept as a sequence of pages of PageSize cells, so that a store copies   *)
(* one page; a cell holds a stored byte 0..255, or a negative number for a *)
(* byte nothing was stored to since malloc (see Indeterminate).            *)
(*                                                                         *)
(* Four specifications share the actions:                                  *)
(*   Spec      calls made one after another, the fill loop a row a step;   *)
(*   LoopSpec  one caller, the fill loop a body (or a row) a step;         *)
(*   ConcSpec  calls running at once, interleaved between rows;            *)
(*   MisuseSpec  Spec plus callers that break the release contract.        *)
(***************************************************************************)
EXTENDS Integers, Sequences, FiniteSets, TLC

\* ------------------------------------------------------------- bounds
NThreads == 2
NAddrs == 2
MaxCalls == 2
PageSize == 256

Threads == 1..NThreads
Addrs == 1..NAddrs
BufIds == 1..MaxCalls
NULL == 0
\* A pointer value that malloc never returned.
WildPtr == NAddrs + 1

Filenames == {"test.png", "nonexistent.png"}
ReqComps == {0, 4}
\* What the bytes of heap memory nothing was stored to may hold.
GarbageBytes == {0, 205}

VARIABLES
    pc,        \* per thread: "idle", "malloc", "fill", "held", "released"
    filename,  \* per thread: the filename argument of its current/last call
    req_comp,  \* per thread: the req_comp argument of its current/last call
    x, y, comp,\* per thread: the ints the out-parameters point to
    size,      \* per thread: local `size`
    data,      \* per thread: local `data`, then the pointer the caller holds
    i, j,      \* per thread: loop counters
    iters,     \* per thread: loop bodies executed in the current/last call
    bid,       \* per thread: the buffer its last malloc created (0: none)
    mem,       \* per address: the pages of the block there (<<>> when none)
    bufs,      \* per buffer id: [addr, st], st in "unborn","allocated","freed"
    nCalls,    \* calls to stbi_load so far
    stale,     \* the byte value unwritten heap memory holds
    lastFree,  \* the last stbi_image_free call: [arg, kind, outcome]
    misused,   \* a caller has broken the release contract
    fault,     \* "none", or the undefined behaviour the run has reached
    crashed    \* the process was killed

vars == <<pc, filename, req_comp, x, y, comp, size, data, i, j, iters, bid,
          mem, bufs, nCalls, stale, lastFree, misused, fault, crashed>>

args == <<filename, req_comp>>
outParams == <<x, y, comp>>
loopVars == <<i, j, iters>>
heap == <<mem, bufs>>

\* ------------------------------------------------- stbi_load, line by line

\* (variant: comp reports the channel count the caller asked for)
OutDims_Requested(f, r) == [x |-> 64, y |-> 64, comp |-> IF r # 0 THEN r ELSE 3]

\* *x = 64; *y = 64; *comp = 3;
OutDims(f, r) == [x |-> 64, y |-> 64, comp |-> 3]

\* (variant: four bytes a pixel are allocated)
AllocSize_Rgba(xv, yv) == xv * yv * 4

\* (variant: one byte a pixel is allocated)
AllocSize_NoChannels(xv, yv) == xv * yv

\* int size = (*x) * (*y) * 3;
AllocSize(xv, yv) == xv * yv * 3

\* (variant: the parentheses around i * (*x) + j are missing)
PixelIndex_NoParens(iv, jv, xv) == iv * xv + jv * 3

\* int idx = (i * (*x) + j) * 3;
PixelIndex(iv, jv, xv) == (iv * xv + jv) * 3

\* (variant: the tiles alternate along the columns only)
RedTile_Stripes(iv, jv) == (jv \div 8) % 2 = 0

\* if ((i / 8 + j / 8) % 2 == 0)
RedTile(iv, jv) == ((iv \div 8) + (jv \div 8)) % 2 = 0

\* (variant: a file that is not there gives a black image)
PixelBytes_ByFile(iv, jv, f, r) ==
    IF f = "nonexistent.png" THEN <<0, 0, 0>>
    ELSE IF RedTile(iv, jv) THEN <<255, 0, 0>> ELSE <<0, 255, 0>>

\* the three stores of one loop body: data[idx], data[idx + 1], data[idx + 2]
PixelBytes(iv, jv, f, r) == IF RedTile(iv, jv) THEN <<255, 0, 0>> ELSE <<0, 255, 0>>

\* ------------------------------------------------------------- memory

\* The cell of a byte that holds g because nothing was stored to it.
Indeterminate(g) == -1 - g
IsStored(c) == c >= 0
ByteValue(c) == IF c >= 0 THEN c ELSE -1 - c

NumPages(n) == (n + PageSize - 1) \div PageSize
PageLen(n, p) == IF p * PageSize <= n THEN PageSize ELSE n - (p - 1) * PageSize

\* malloc(n) does not initialise the block it returns.
FreshBlock(n, g) ==
    [p \in 1..NumPages(n) |-> [k \in 1..PageLen(n, p) |-> Indeterminate(g)]]

BlockLen(m) == IF Len(m) = 0 THEN 0 ELSE (Len(m) - 1) * PageSize + Len(m[Len(m)])
Cell(m, k) == m[(k \div PageSize) + 1][(k % PageSize) + 1]
Store(m, k, v) == [m EXCEPT ![(k \div PageSize) + 1][(k % PageSize) + 1] = v]

InBlock(p, k) == p \in Addrs /\ k >= 0 /\ k < BlockLen(mem[p])

\* One loop body (lines 49-58) on block m.
LoopBody(m, iv, jv, xv, f, r) ==
    LET idx == PixelIndex(iv, jv, xv)
        b == PixelBytes(iv, jv, f, r)
    IN Store(Store(Store(m, idx, b[1]), idx + 1, b[2]), idx + 2, b[3])

\* The bodies for j = jFrom .. jTo - 1 of row iv, applied in that order.  The
\* range is halved, and the block left by the first half is computed (as the
\* one element of a set) before the second half starts from it, so that the
\* evaluation never nests one level per body.
RECURSIVE FillRange(_, _, _, _, _, _, _)
FillRange(m, iv, jFrom, jTo, xv, f, r) ==
    IF jFrom >= jTo THEN m
    ELSE IF jFrom + 1 = jTo THEN LoopBody(m, iv, jFrom, xv, f, r)
    ELSE LET mid == (jFrom + jTo) \div 2
         IN CHOOSE done \in {FillRange(half, iv, mid, jTo, xv, f, r) :
                                half \in {FillRange(m, iv, jFrom, mid, xv, f, r)}} : TRUE

\* Every store of those bodies lands inside the block at p.
StoresOK(ptr, row, first, last, width) ==
    /\ ptr \in Addrs
    /\ LET n == BlockLen(mem[ptr])
       IN {jj \in first..(last - 1) :
              ~(PixelIndex(row, jj, width) >= 0 /\ PixelIndex(row, jj, width) + 2 < n)} = {}

\* ------------------------------------------------------------- the heap

LiveAt(a) == {b \in BufIds : bufs[b].st = "allocated" /\ bufs[b].addr = a}
WasFreedAt(a) == \E b \in BufIds : bufs[b].st = "freed" /\ bufs[b].addr = a
Unborn == {b \in BufIds : bufs[b].st = "unborn"}
NextBuf == CHOOSE b \in Unborn : \A c \in Unborn : b <= c

\* (variant: one static buffer is handed out every time)
MallocChoices_Static == {1}

\* The addresses malloc may return: those holding no live block.
MallocChoices == {a \in Addrs : LiveAt(a) = {}}

\* (variant: a pointer that is not a live block is ignored)
FreeOutcome_Checked(p) ==
    IF p \in Addrs /\ LiveAt(p) # {} THEN "release" ELSE "nothing"

\* (variant: the block is never handed back)
FreeOutcome_Leak(p) == "nothing"

\* void stbi_image_free(void *p) { free(p); }: what free does with p.
\*   "nothing"    p is null
\*   "release"    p is the address of a live block, which is released
\*   "undefined"  anything else: free's behaviour is undefined
FreeOutcome(p) ==
    IF p = NULL THEN "nothing"
    ELSE IF p \in Addrs /\ LiveAt(p) # {} THEN "release"
    ELSE "undefined"

\* ------------------------------------------------------------- actions

InCall(t) == pc[t] \in {"malloc", "fill"}

\* lines 37-43: entry, the three out-parameter stores, size.  (No call is
\* started once the run has reached undefined behaviour: what the program
\* does from there on is not modelled beyond the end of the running call.)
Load_Begin(t, f, r) ==
    /\ ~crashed /\ fault = "none"
    /\ pc[t] \in {"idle", "released"}
    /\ nCalls < MaxCalls
    /\ nCalls' = nCalls + 1
    /\ filename' = [filename EXCEPT ![t] = f]
    /\ req_comp' = [req_comp EXCEPT ![t] = r]
    /\ x' = [x EXCEPT ![t] = OutDims(f, r).x]
    /\ y' = [y EXCEPT ![t] = OutDims(f, r).y]
    /\ comp' = [comp EXCEPT ![t] = OutDims(f, r).comp]
    /\ size' = [size EXCEPT ![t] = AllocSize(x'[t], y'[t])]
    /\ data' = [data EXCEPT ![t] = NULL]
    /\ bid' = [bid EXCEPT ![t] = 0]
    /\ i' = [i EXCEPT ![t] = 0]
    /\ j' = [j EXCEPT ![t] = 0]
    /\ iters' = [iters EXCEPT ![t] = 0]
    /\ pc' = [pc EXCEPT ![t] = "malloc"]
    /\ UNCHANGED <<heap, stale, lastFree, misused, fault, crashed>>

\* line 44, malloc succeeds
Load_Malloc(t) ==
    /\ ~crashed
    /\ pc[t] = "malloc"
    /\ \E a \in MallocChoices :
        /\ data' = [data EXCEPT ![t] = a]
        /\ mem' = [mem EXCEPT ![a] = FreshBlock(size[t], stale)]
        /\ bufs' = [bufs EXCEPT ![NextBuf] = [addr |-> a, st |-> "allocated"]]
    /\ bid' = [bid EXCEPT ![t] = NextBuf]
    /\ pc' = [pc EXCEPT ![t] = "fill"]
    /\ UNCHANGED <<args, outParams, size, loopVars, nCalls, stale, lastFree, misused,
                   fault, crashed>>

\* line 44, malloc returns a null pointer; line 44 does not test it
Load_MallocFails(t) ==
    /\ ~crashed
    /\ pc[t] = "malloc"
    /\ data' = [data EXCEPT ![t] = NULL]
    /\ pc' = [pc EXCEPT ![t] = "fill"]
    /\ UNCHANGED <<args, outParams, size, loopVars, bid, heap, nCalls, stale,
                   lastFree, misused, fault, crashed>>

\* lines 47-60: the loop bodies j .. upTo - 1 of row i, then the j++ / i++ and
\* loop tests that follow them
Load_Fill(t, upTo) ==
    /\ ~crashed
    /\ pc[t] = "fill"
    /\ i[t] < y[t] /\ j[t] < x[t] /\ j[t] < upTo /\ upTo <= x[t]
    /\ StoresOK(data[t], i[t], j[t], upTo, x[t])
    /\ mem' = [mem EXCEPT ![data[t]] =
                  FillRange(mem[data[t]], i[t], j[t], upTo, x[t], filename[t], req_comp[t])]
    /\ i' = [i EXCEPT ![t] = IF upTo < x[t] THEN @ ELSE @ + 1]
    /\ j' = [j EXCEPT ![t] = IF upTo < x[t] THEN upTo ELSE 0]
    /\ iters' = [iters EXCEPT ![t] = @ + (upTo - j[t])]
    /\ UNCHANGED <<pc, args, outParams, size, data, bid, bufs, nCalls,
                   stale, lastFree, misused, fault, crashed>>

\* lines 51-57 when a store of those bodies lands outside every block (data is
\* null, or idx runs past the block): undefined behaviour.  Either the process
\* is killed at the store, or this store and the later ones of the call land in
\* memory the program does not otherwise use and the loop runs to its end.
Load_BadStore(t, upTo) ==
    /\ ~crashed
    /\ pc[t] = "fill"
    /\ i[t] < y[t] /\ j[t] < x[t] /\ j[t] < upTo /\ upTo <= x[t]
    /\ ~StoresOK(data[t], i[t], j[t], upTo, x[t])
    /\ fault' = IF data[t] = NULL THEN "null_store" ELSE "overflow"
    /\ \/ /\ crashed' = TRUE
          /\ UNCHANGED loopVars
       \/ /\ crashed' = FALSE
          /\ i' = [i EXCEPT ![t] = y[t]]
          /\ j' = [j EXCEPT ![t] = 0]
          /\ iters' = [iters EXCEPT ![t] = x[t] * y[t]]
    /\ UNCHANGED <<pc, args, outParams, size, data, bid, heap, nCalls, stale,
                   lastFree, misused>>

\* line 62: return data
Load_Return(t) ==
    /\ ~crashed
    /\ pc[t] = "fill"
    /\ ~(i[t] < y[t])
    /\ pc' = [pc EXCEPT ![t] = "held"]
    /\ UNCHANGED <<args, outParams, size, data, bid, loopVars, heap, nCalls, stale,
                   lastFree, misused, fault, crashed>>

\* lines 65-67: stbi_image_free(p).  kind says what the caller passed: "owned"
\* (the pointer of a buffer it holds), "again" (one it has released) or "wild"
\* (one stbi_load never returned).  When free's behaviour is undefined, either
\* the process is killed or the call returns with the heap as it was.
Free_Call(p, kind) ==
    /\ ~crashed
    /\ lastFree' = [arg |-> p, kind |-> kind, outcome |-> FreeOutcome(p)]
    /\ misused' = (misused \/ kind # "owned")
    /\ IF FreeOutcome(p) = "nothing"
         THEN UNCHANGED <<heap, fault, crashed>>
       ELSE IF FreeOutcome(p) = "release"
         THEN /\ bufs' = [b \in BufIds |->
                            IF b \in LiveAt(p) THEN [bufs[b] EXCEPT !.st = "freed"] ELSE bufs[b]]
              /\ mem' = [mem EXCEPT ![p] = <<>>]
              /\ UNCHANGED <<fault, crashed>>
       ELSE /\ fault' = IF p \in Addrs /\ WasFreedAt(p) THEN "double_free" ELSE "invalid_free"
            /\ crashed' \in BOOLEAN
            /\ UNCHANGED heap
    /\ UNCHANGED <<outParams, size, data, bid, loopVars, nCalls, stale>>

\* The caller releases the buffer it holds, once.  (filename and req_comp are
\* kept while the buffer of the call is held, and forgotten with it.)
Release(t) ==
    /\ pc[t] = "held"
    /\ Free_Call(data[t], "owned")
    /\ pc' = [pc EXCEPT ![t] = "released"]
    /\ filename' = [filename EXCEPT ![t] = ""]
    /\ req_comp' = [req_comp EXCEPT ![t] = 0]

\* The caller releases again a pointer it has released.
ReleaseAgain(t) ==
    /\ pc[t] = "released"
    /\ data[t] # NULL
    /\ Free_Call(data[t], "again")
    /\ UNCHANGED <<pc, args>>

\* The caller releases a pointer stbi_load never returned.
ReleaseWild(t) ==
    /\ pc[t] \in {"idle", "released"}
    /\ Free_Call(WildPtr, "wild")
    /\ UNCHANGED <<pc, args>>

Load_FillRow(t) == j[t] = 0 /\ Load_Fill(t, x[t])
Load_BadStoreRow(t) == j[t] = 0 /\ Load_BadStore(t, x[t])
Load_FillPixel(t) == Load_Fill(t, j[t] + 1)

\* ------------------------------------------------------------- Init, Spec

Init ==
    /\ pc = [t \in Threads |-> "idle"]
    /\ filename = [t \in Threads |-> ""]
    /\ req_comp = [t \in Threads |-> 0]
    /\ x = [t \in Threads |-> 0]
    /\ y = [t \in Threads |-> 0]
    /\ comp = [t \in Threads |-> 0]
    /\ size = [t \in Threads |-> 0]
    /\ data = [t \in Threads |-> NULL]
    /\ i = [t \in Threads |-> 0]
    /\ j = [t \in Threads |-> 0]
    /\ iters = [t \in Threads |-> 0]
    /\ bid = [t \in Threads |-> 0]
    /\ mem = [a \in Addrs |-> <<>>]
    /\ bufs = [b \in BufIds |-> [addr |-> NULL, st |-> "unborn"]]
    /\ nCalls = 0
    /\ stale \in GarbageBytes
    /\ lastFree = [arg |-> NULL, kind |-> "none", outcome |-> "none"]
    /\ misused = FALSE
    /\ fault = "none"
    /\ crashed = FALSE

Alone(t) == \A u \in Threads \ {t} : ~InCall(u)

\* One operation at a time (a call runs to its return before the next call or
\* release starts); the loop a row at a time.
Next ==
    \E t \in Threads :
        \/ Alone(t) /\ \E f \in Filenames, r \in ReqComps : Load_Begin(t, f, r)
        \/ Load_Malloc(t)
        \/ Load_MallocFails(t)
        \/ Load_FillRow(t)
        \/ Load_BadStoreRow(t)
        \/ Load_Return(t)
        \/ Alone(t) /\ Release(t)

Spec == Init /\ [][Next]_vars

\* One caller, one call whose malloc succeeds; a step of the loop is one body,
\* or at the start of a row all the bodies of the row, so that every (i, j)
\* the loop passes through is a state.
LoopNext ==
    \/ nCalls = 0 /\ \E f \in Filenames, r \in ReqComps : Load_Begin(1, f, r)
    \/ Load_Malloc(1)
    \/ Load_FillPixel(1)
    \/ Load_FillRow(1)
    \/ Load_Return(1)
    \/ Release(1)

LoopSpec == Init /\ [][LoopNext]_vars

\* Calls running at once, their mallocs succeeding; a thread may be preempted
\* between rows.  Each thread calls with arguments of its own, and unwritten
\* heap memory holds one garbage value.
ConcFile(t) == IF t % 2 = 1 THEN "test.png" ELSE "nonexistent.png"
ConcReq(t) == IF t % 2 = 1 THEN 0 ELSE 4

ConcNext ==
    \E t \in Threads :
        \/ Load_Begin(t, ConcFile(t), ConcReq(t))
        \/ Load_Malloc(t)
        \/ Load_FillRow(t)
        \/ Load_Return(t)
        \/ Release(t)

ConcInit == Init /\ stale = 205

ConcSpec == ConcInit /\ [][ConcNext]_vars

\* Spec with callers that break the release contract.
MisuseNext ==
    \/ Next
    \/ \E t \in Threads :
        \/ Alone(t) /\ ReleaseAgain(t)
        \/ Alone(t) /\ ReleaseWild(t)

MisuseSpec == Init /\ [][MisuseNext]_vars

\* ------------------------------------------------------------- the claims

\* t holds a buffer stbi_load returned and has not released it.
Holds(t) == pc[t] = "held" /\ data[t] # NULL

\* t is in a call, or holds its result, with a block of its own.
Live(t) == pc[t] \in {"fill", "held"} /\ data[t] # NULL

\* The byte at offset o of the 64 x 64 RGB image the claims describe: pixel
\* (row, col) is at offset (row * 64 + col) * 3, red when row div 8 + col div 8
\* is even and green otherwise.
CheckerByte(o) ==
    LET row == (o \div 3) \div 64
        col == (o \div 3) % 64
    IN IF ((row \div 8) + (col \div 8)) % 2 = 0
         THEN <<255, 0, 0>>[(o % 3) + 1]
         ELSE <<0, 255, 0>>[(o % 3) + 1]

Checkerboard ==
    [p \in 1..NumPages(12288) |->
        [k \in 1..PageLen(12288, p) |-> CheckerByte((p - 1) * PageSize + k - 1)]]

Pixel(m, row, col) ==
    LET off == (row * 64 + col) * 3
    IN <<Cell(m, off), Cell(m, off + 1), Cell(m, off + 2)>>

\* Rows and columns at and around the tile borders.
Borders == {0, 7, 8, 9, 15, 16, 31, 32, 56, 63}

\* Every cell of m holds a byte that was stored since malloc.
AllStored(m) == \A p \in DOMAIN m : m[p] \in Seq(0..255)

\* C1: whatever filename and req_comp a call was given, from its entry on the
\* out-parameters hold width 64, height 64 and 3 channels.
C1_OutParams ==
    \A t \in Threads : pc[t] # "idle" => x[t] = 64 /\ y[t] = 64 /\ comp[t] = 3

C1_Witness ==
    \E t \in Threads :
        /\ pc[t] = "held" /\ filename[t] = "nonexistent.png" /\ req_comp[t] = 4
        /\ x[t] = 64 /\ y[t] = 64 /\ comp[t] = 3

\* C2: a returned buffer is the checkerboard: pixel (row, col), at offset
\* (row * 64 + col) * 3, is (255, 0, 0) when row div 8 + col div 8 is even and
\* (0, 255, 0) otherwise; (0,0) is red, (8,0) green, (8,8) red.
C2_Checkerboard ==
    \A t \in Threads : Holds(t) =>
        LET m == mem[data[t]]
        IN /\ m = Checkerboard
           /\ \A row \in Borders, col \in Borders :
                 Pixel(m, row, col) =
                     IF ((row \div 8) + (col \div 8)) % 2 = 0 THEN <<255, 0, 0>> ELSE <<0, 255, 0>>
           /\ Pixel(m, 0, 0) = <<255, 0, 0>>
           /\ Pixel(m, 8, 0) = <<0, 255, 0>>
           /\ Pixel(m, 8, 8) = <<255, 0, 0>>

C2_Witness ==
    \E t \in Threads :
        /\ Holds(t) /\ filename[t] = "nonexistent.png" /\ req_comp[t] = 4
        /\ Pixel(mem[data[t]], 8, 0) = <<0, 255, 0>>
        /\ Pixel(mem[data[t]], 63, 63) = <<255, 0, 0>>

\* C3: while a returned buffer is held, its length is width * height *
\* channels as reported through the out-parameters, which is 12288.
C3_BufferLength ==
    \A t \in Threads : Holds(t) =>
        /\ BlockLen(mem[data[t]]) = x[t] * y[t] * comp[t]
        /\ BlockLen(mem[data[t]]) = 12288

C3_Witness ==
    \E t, u \in Threads :
        /\ t # u /\ Holds(t) /\ Holds(u) /\ bid[t] < bid[u]
        /\ BlockLen(mem[data[t]]) = 12288

C5_ZeroInitialized ==
    \A t \in Threads :
        /\ (pc[t] = "fill" /\ data[t] # NULL /\ iters[t] = 0) =>
              \A p \in DOMAIN mem[data[t]] : \A k \in DOMAIN mem[data[t]][p] :
                  ByteValue(mem[data[t]][p][k]) = 0
        /\ Holds(t) => AllStored(mem[data[t]])

\* C5, amended: the returned buffer is a block of its own, allocated in this
\* call, and every one of its 12288 bytes has been stored to before the return
\* (malloc does not zero it: until stored to, its bytes are indeterminate).
C5_FullyWritten ==
    \A t \in Threads : Holds(t) =>
        /\ AllStored(mem[data[t]])
        /\ BlockLen(mem[data[t]]) = 12288
        /\ bid[t] \in BufIds /\ bufs[bid[t]] = [addr |-> data[t], st |-> "allocated"]
        /\ \A u \in Threads \ {t} : Live(u) => data[u] # data[t]

C5_Witness ==
    \E t \in Threads : Holds(t) /\ stale = 205 /\ AllStored(mem[data[t]])

\* C6: a buffer is created allocated by the malloc of a stbi_load call and
\* goes from allocated to freed in the one step of the stbi_image_free call
\* that is given it; while callers release only what they hold, a freed buffer
\* stays freed and is not released again (every release is of an allocated
\* buffer), and no step of stbi_load changes a buffer that exists already.
C6_Step ==
    /\ \A b \in BufIds :
          /\ bufs'[b].st \in {"unborn", "allocated", "freed"}
          /\ bufs[b].st = "freed" => bufs'[b] = bufs[b]
          /\ bufs[b].st = "allocated" =>
                /\ bufs'[b].addr = bufs[b].addr
                /\ bufs'[b].st \in {"allocated", "freed"}
                /\ bufs'[b].st = "freed" =>
                      \E t \in Threads :
                          /\ pc[t] = "held" /\ pc'[t] = "released"
                          /\ bid[t] = b /\ data[t] = bufs[b].addr
          /\ (bufs[b].st = "unborn" /\ bufs'[b].st # "unborn") =>
                /\ bufs'[b].st = "allocated"
                /\ \E t \in Threads :
                      /\ pc[t] = "malloc" /\ pc'[t] = "fill"
                      /\ bid'[t] = b /\ data'[t] = bufs'[b].addr
    /\ \A t \in Threads :
          /\ (pc[t] = "held" /\ pc'[t] = "released" /\ data[t] # NULL) =>
                /\ bufs[bid[t]].st = "allocated"
                /\ bufs'[bid[t]].st = "freed"
          /\ (InCall(t) \/ InCall(t)') =>
                \A b \in BufIds : bufs[b].st # "unborn" => bufs'[b] = bufs[b]
    /\ fault' \notin {"double_free", "invalid_free"}

C6_Lifecycle == [][C6_Step]_vars

C6_Witness ==
    \E b, c \in BufIds :
        /\ bufs[b].st = "freed" /\ bufs[c].st = "allocated"
        /\ bufs[b].addr = bufs[c].addr

\* C7: stbi_image_free tests nothing and reports nothing.  A second release of
\* a pointer, or the release of a pointer stbi_load never returned, goes
\* through to free and its behaviour is undefined (double free, invalid free),
\* unless the address has been handed out again meanwhile, and then the call
\* frees the buffer of whoever holds it now.  The behaviour is defined exactly
\* for a null argument (nothing happens) and the address of a live buffer;
\* while callers keep to that, no such state is reached.
C7_ReleaseUnchecked ==
    /\ lastFree.kind # "none" =>
          /\ lastFree.outcome \in {"nothing", "release", "undefined"}
          /\ lastFree.outcome = "nothing" <=> lastFree.arg = NULL
          /\ lastFree.outcome = "undefined" => fault \in {"double_free", "invalid_free"}
    /\ lastFree.kind = "wild" =>
          lastFree.outcome = "undefined" /\ fault = "invalid_free"
    /\ lastFree.kind = "again" =>
          \/ lastFree.outcome = "undefined" /\ fault = "double_free"
          \/ /\ lastFree.outcome = "release"
             /\ \E u \in Threads :
                   /\ pc[u] = "held" /\ data[u] = lastFree.arg
                   /\ bufs[bid[u]].st = "freed"
    /\ ~misused =>
          /\ lastFree.outcome # "undefined"
          /\ fault \notin {"double_free", "invalid_free"}

C7_Witness ==
    /\ lastFree.kind = "again" /\ lastFree.outcome = "undefined"
    /\ fault = "double_free" /\ ~crashed

\* C8, as the claim has it: when malloc returns null the call does nothing
\* undefined on the way and hands the null pointer back; a call whose malloc
\* succeeded never faults.
C8_NullBufferReturned ==
    /\ \A t \in Threads :
          (pc[t] \in {"fill", "held"} /\ data[t] = NULL) => (fault = "none" /\ ~crashed)
    /\ fault \in {"none", "null_store"}

\* C9: calls running at once do not meet.  The buffers of any two calls in
\* flight or held are at different addresses; a step of one thread changes
\* no local, out-parameter or argument of another thread and no block but the
\* stepping thread's own; every returned buffer is the 64 x 64 x 3
\* checkerboard a call running alone returns.
Locals(t) ==
    <<pc[t], filename[t], req_comp[t], x[t], y[t], comp[t], size[t], data[t],
      i[t], j[t], iters[t], bid[t]>>

C9_Apart ==
    /\ \A t, u \in Threads : (t # u /\ Live(t) /\ Live(u)) => data[t] # data[u]
    /\ \A t \in Threads : Holds(t) =>
          /\ mem[data[t]] = Checkerboard
          /\ x[t] = 64 /\ y[t] = 64 /\ comp[t] = 3

C9_Step ==
    /\ C9_Apart'
    /\ \A t \in Threads : Locals(t)' # Locals(t) =>
          /\ \A u \in Threads \ {t} : Locals(u)' = Locals(u)
          /\ \A a \in Addrs : mem'[a] # mem[a] =>
                /\ a \in {data[t], data'[t]}
                /\ \A u \in Threads \ {t} : Live(u) => data[u] # a

C9_Independent == [][C9_Step]_vars

C9_Witness ==
    /\ pc[1] = "fill" /\ pc[2] = "fill"
    /\ i[1] = 40 /\ i[2] = 20
    /\ data[1] # data[2] /\ data[1] # NULL /\ data[2] # NULL

\* C10: in the fill loop, at every body (i, j) with 0 <= i, j < 64, the index
\* idx is (i * 64 + j) * 3 with 0 <= idx and idx + 2 < 12288, the length of
\* the block; the three bytes the body is about to store to have not been
\* stored to before; the loop ends after 4096 bodies, with every byte stored
\* to.  (4096 bodies of three stores, each to a byte not stored to before,
\* leaving all 12288 bytes stored to: each byte is stored to exactly once.)
C10_LoopBounds ==
    \A t \in Threads :
        /\ (pc[t] = "fill" /\ data[t] # NULL) =>
              /\ 0 <= i[t] /\ i[t] <= 64 /\ 0 <= j[t] /\ j[t] < 64
              /\ iters[t] = i[t] * 64 + j[t]
              /\ BlockLen(mem[data[t]]) = 12288
              /\ i[t] < y[t] =>
                    LET idx == PixelIndex(i[t], j[t], x[t])
                    IN /\ idx = (i[t] * 64 + j[t]) * 3
                       /\ 0 <= idx /\ idx + 2 < 12288
                       /\ InBlock(data[t], idx) /\ InBlock(data[t], idx + 2)
                       /\ \A k \in 0..2 : ~IsStored(Cell(mem[data[t]], idx + k))
                       /\ idx > 0 => IsStored(Cell(mem[data[t]], idx - 1))
              /\ ~(i[t] < y[t]) => iters[t] = 4096
        /\ Holds(t) => (iters[t] = 4096 /\ AllStored(mem[data[t]]))

C10_Witness ==
    /\ pc[1] = "fill" /\ i[1] = 63 /\ j[1] = 63
    /\ ~IsStored(Cell(mem[data[1]], 12287))
    /\ IsStored(Cell(mem[data[1]], 12284))
====
